---------------------------- MODULE Spec2Model ----------------------------
(***************************************************************************)
(* FireBet (src/main.py): a Discord bot with a fiat/DogCoin ledger         *)
(* (balance.db), a DogCoin price series (crypto.db), a periodic price task *)
(* and the commands trade, work and give.                                  *)
(*                                                                         *)
(* Units.  Money (balance, total_value, prices) is counted in cents and    *)
(* DogCoin (holdings, trade_amount) in hundredths of a coin, so that the   *)
(* program's round(x, 2) is a rounding of an exact rational to an integer. *)
(* Python rounds the binary double, so a value that is an exact decimal    *)
(* tie (x.xx5) may go either way depending on representation error:        *)
(* RoundHalf returns the set of results a tie can produce.                 *)
(*                                                                         *)
(* Scheduling.  discord.py runs every command handler and the price task   *)
(* as coroutines on one event loop.  A coroutine is only suspended at an   *)
(* await; trade, give, work and update_price_with_ai await nothing before  *)
(* their final ctx.send, and sqlite3 calls block.  The variable frame      *)
(* holds the one handler that is between its ledger read and its last      *)
(* write; no other handler and no tick can run until it is Idle again.     *)
(* A storage exception (StorageFail) or a crash of the process followed by *)
(* its start (Restart) can strike between two ledger writes.               *)
(***************************************************************************)
EXTENDS Integers, Sequences, FiniteSets, TLC

VARIABLES
    proc,           \* "down" | "up": whether the bot process is running
    ledger,         \* balance.db: user_id -> [balance, holdings], rows that exist
    prices,         \* crypto.db: sequence of [timestamp, price] rows (dogcoin)
    current_price,  \* the module global current_price, in cents
    task,           \* the update_price_with_ai loop: "unstarted", "running", "failed"
    clock,          \* wall clock: it advances with every command and every tick
    frame,          \* the handler between its read and its last write, or Idle
    reply           \* the last embed sent by a command handler

vars == <<proc, ledger, prices, current_price, task, clock, frame, reply>>

-----------------------------------------------------------------------------
(* Bounds of the model *)

MaxClock == 3

-----------------------------------------------------------------------------
(* Program constants *)

\* current_price = 500.0 (line 17), in cents
InitialPrice == 50000
\* the hard-coded privileged id of give (line 351)
PrivilegedId == "753409302680699021"
\* LIMIT 40 of the price task's lookback (line 173)
Lookback == 40

UserIds == {"1001", PrivilegedId}

Idle == [op |-> "idle"]
NoReply == [kind |-> "none"]

-----------------------------------------------------------------------------
(* Arithmetic *)

Max(a, b) == IF a >= b THEN a ELSE b
Min(a, b) == IF a <= b THEN a ELSE b
Abs(a) == IF a >= 0 THEN a ELSE -a

\* round(num / den) for den > 0: the nearest integer; on an exact tie either
\* neighbour (the double nearest to the decimal tie lies on one side or the
\* other, and when it is exact Python rounds half to even).
RoundHalf(num, den) ==
    LET q == num \div den
        r == num % den
    IN  IF 2 * r < den THEN {q}
        ELSE IF 2 * r > den THEN {q + 1}
        ELSE {q, q + 1}

-----------------------------------------------------------------------------
(* Command arguments: text as typed, a sequence of characters *)

UpperCase == <<"A","B","C","D","E","F","G","H","I","J","K","L","M",
               "N","O","P","Q","R","S","T","U","V","W","X","Y","Z">>
LowerCase == <<"a","b","c","d","e","f","g","h","i","j","k","l","m",
               "n","o","p","q","r","s","t","u","v","w","x","y","z">>
Digits == <<"0","1","2","3","4","5","6","7","8","9">>

IndexIn(c, alphabet) == CHOOSE i \in 1..Len(alphabet) : alphabet[i] = c
InSeq(c, alphabet) == \E i \in 1..Len(alphabet) : alphabet[i] = c

\* str.lower()
Lower(s) ==
    [i \in 1..Len(s) |->
        IF InSeq(s[i], UpperCase) THEN LowerCase[IndexIn(s[i], UpperCase)] ELSE s[i]]

RECURSIVE DigitsValue(_)
DigitsValue(ds) ==
    IF Len(ds) = 0 THEN 0
    ELSE 10 * DigitsValue(SubSeq(ds, 1, Len(ds) - 1)) + (IndexIn(ds[Len(ds)], Digits) - 1)

RECURSIVE Pow10(_)
Pow10(n) == IF n = 0 THEN 1 ELSE 10 * Pow10(n - 1)

Without(s, i) == SubSeq(s, 1, i - 1) \o SubSeq(s, i + 1, Len(s))

\* float(amount), for the decimal forms [sign] digits [. digits] and
\* [sign] . digits, and for nan and inf; anything else raises ValueError.
\* (Python also accepts exponents, underscores and surrounding blanks; no
\* argument drawn in this model uses them.)  A number is the exact rational
\* num / den.
ParseFloat(s) ==
    LET signed == Len(s) > 0 /\ s[1] \in {"+", "-"}
        neg == Len(s) > 0 /\ s[1] = "-"
        body == IF signed THEN Tail(s) ELSE s
        dots == {i \in 1..Len(body) : body[i] = "."}
        dot == IF dots = {} THEN 0 ELSE CHOOSE i \in dots : TRUE
        ds == IF dot = 0 THEN body ELSE Without(body, dot)
        fracLen == IF dot = 0 THEN 0 ELSE Len(body) - dot
    IN  IF Lower(body) = <<"n","a","n">> THEN [kind |-> "nan"]
        ELSE IF Lower(body) \in {<<"i","n","f">>, <<"i","n","f","i","n","i","t","y">>}
        THEN [kind |-> IF neg THEN "-inf" ELSE "inf"]
        ELSE IF /\ Cardinality(dots) <= 1
                /\ Len(ds) > 0
                /\ \A i \in 1..Len(ds) : InSeq(ds[i], Digits)
        THEN [kind |-> "num",
              num |-> IF neg THEN -DigitsValue(ds) ELSE DigitsValue(ds),
              den |-> Pow10(fracLen)]
        ELSE [kind |-> "ValueError"]

-----------------------------------------------------------------------------
(* balance.db *)

\* get_balance: the stored balance, 0 when the user has no row
get_balance(l, u) == IF u \in DOMAIN l THEN l[u].balance ELSE 0

\* get_holdings: the stored holdings, 0 when the user has no row
get_holdings(l, u) == IF u \in DOMAIN l THEN l[u].holdings ELSE 0

\* The row of user u with one more binding; creates the row when absent.
PutRow(l, u, row) == [v \in DOMAIN l \cup {u} |-> IF v = u THEN row ELSE l[v]]

update_balance_Replace(l, u, amount) ==
    PutRow(l, u, [balance |-> Max(get_balance(l, u) + amount, 0), holdings |-> 0])

update_balance_NoFloor(l, u, amount) ==
    IF u \in DOMAIN l
    THEN PutRow(l, u, [l[u] EXCEPT !.balance = l[u].balance + amount])
    ELSE PutRow(l, u, [balance |-> amount, holdings |-> 0])

\* update_balance(user_id, amount): amount in cents.  Every call site passes
\* a 2-decimal amount, so round(..., 2) only removes binary noise of the
\* float sum; on exact cents nothing is left for it to do.
update_balance(l, u, amount) ==
    IF u \in DOMAIN l
    THEN PutRow(l, u, [l[u] EXCEPT !.balance = Max(l[u].balance + amount, 0)])
    ELSE PutRow(l, u, [balance |-> Max(amount, 0), holdings |-> 0])

update_holdings_NoFloor(l, u, amount) ==
    IF u \in DOMAIN l
    THEN PutRow(l, u, [l[u] EXCEPT !.holdings = l[u].holdings + amount])
    ELSE PutRow(l, u, [balance |-> 0, holdings |-> amount])

\* update_holdings(user_id, amount): amount in hundredths of a coin
update_holdings(l, u, amount) ==
    IF u \in DOMAIN l
    THEN PutRow(l, u, [l[u] EXCEPT !.holdings = Max(l[u].holdings + amount, 0)])
    ELSE PutRow(l, u, [balance |-> 0, holdings |-> Max(amount, 0)])

-----------------------------------------------------------------------------
(* crypto.db *)

initialize_crypto_db_Reset(ps, now, price) ==
    <<[timestamp |-> now, price |-> price]>>

initialize_crypto_db_Always(ps, now, price) ==
    Append(ps, [timestamp |-> now, price |-> price])

\* initialize_crypto_db: insert the seed row when the series is empty
initialize_crypto_db(ps, now, price) ==
    IF Len(ps) = 0
    THEN Append(ps, [timestamp |-> now, price |-> price])
    ELSE ps

\* SELECT price ... ORDER BY timestamp DESC LIMIT 40: the prices newest
\* first.  Rows are inserted with strictly increasing timestamps, so the
\* order by timestamp is the reverse of the insertion order.
RecentPrices(ps) ==
    [i \in 1..Min(Len(ps), Lookback) |-> ps[Len(ps) + 1 - i].price]

-----------------------------------------------------------------------------
(* The price task: update_price_with_ai, lines 175-193 *)

\* adjustment = investor_activity + 0.001 * recent_trend + large_trade_impact
\* as the exact rational num / den.  investor and large are in units of
\* 0.0001; newest = prices[0], oldest = prices[-1] of the lookback window, and
\* recent_trend = (newest - oldest) / oldest, or 0 with fewer than 2 prices
\* or oldest = 0.
Adjustment(investor, large, window) ==
    IF Len(window) < 2 \/ window[Len(window)] = 0
    THEN [num |-> investor + large, den |-> 10000]
    ELSE LET newest == window[1]
             oldest == window[Len(window)]
         IN  [num |-> (investor + large) * oldest + 10 * (newest - oldest),
              den |-> 10000 * oldest]

\* max(min(adjustment, 0.1), -0.1), as "hi", "lo" or "in" (unclamped)
Clamp(adj) ==
    IF 10 * adj.num > adj.den THEN "hi"
    ELSE IF 10 * adj.num < -adj.den THEN "lo"
    ELSE "in"

\* round(current_price * (1 + adjustment), 2) in cents.  With k = investor +
\* large, o = oldest and d = newest - oldest the unclamped product is
\*   p + p*k/10^4 + (p \div 1000)*d/o + (p % 1000)*d/(1000*o),
\* computed as its integer parts and one fraction over 10^4 * o so that no
\* intermediate leaves 32 bits.
ScaledPrices(p, investor, large, window) ==
    LET adj == Adjustment(investor, large, window)
        c == Clamp(adj)
    IN  IF c = "hi" THEN RoundHalf(11 * p, 10)
        ELSE IF c = "lo" THEN RoundHalf(9 * p, 10)
        ELSE IF adj.den = 10000 THEN {p + r : r \in RoundHalf(p * adj.num, 10000)}
        ELSE LET o == window[Len(window)]
                 d == window[1] - o
                 t1 == p * (investor + large)
                 t2 == (p \div 1000) * d
                 whole == p + (t1 \div 10000) + (t2 \div o)
                 frac == (t1 % 10000) * o + 10000 * (t2 % o) + 10 * (p % 1000) * d
             IN  {whole + r : r \in RoundHalf(frac, 10000 * o)}

\* new_price = max(round(current_price * (1 + adjustment), 2), 0.01)
NewPrices(p, investor, large, window) ==
    {Max(x, 1) : x \in ScaledPrices(p, investor, large, window)}

\* random.choice([0.02, -0.02, 0]) if random.random() < 0.1 else 0
LargeTradeChoices == {200, -200, 0}

\* One iteration of the loop.  fail names where sqlite3 raises: "select"
\* (connect or SELECT, before current_price is assigned), "insert" (INSERT or
\* commit, after line 194), or "none".  An exception that is not a
\* connection error ends a discord.ext.tasks loop.
update_price_with_ai(investor, large, fail) ==
    /\ proc = "up"
    /\ frame = Idle
    /\ task = "running"
    /\ clock' = clock + 1
    /\ \E new_price \in NewPrices(current_price, investor, large, RecentPrices(prices)) :
          /\ current_price' = IF fail = "select" THEN current_price ELSE new_price
          /\ prices' = IF fail = "none"
                       THEN Append(prices, [timestamp |-> clock', price |-> new_price])
                       ELSE prices
    /\ task' = IF fail = "none" THEN "running" ELSE "failed"
    /\ UNCHANGED <<proc, ledger, frame, reply>>

-----------------------------------------------------------------------------
(* Process lifecycle *)

Init ==
    /\ proc = "down"
    /\ ledger = << >>
    /\ prices = << >>
    /\ current_price = InitialPrice
    /\ task = "unstarted"
    /\ clock = 0
    /\ frame = Idle
    /\ reply = NoReply

\* The first start of the bot on fresh databases.  Module import:
\* current_price = 500.0, initialize_database(), initialize_crypto_db()
\* (lines 17, 58, 59); then client.run and on_ready, which starts the loop.
Start ==
    /\ proc = "down"
    /\ proc' = "up"
    /\ current_price' = InitialPrice
    /\ prices' = initialize_crypto_db(prices, clock, InitialPrice)
    /\ task' = "running"
    /\ UNCHANGED <<ledger, clock, frame, reply>>

\* The process dies and is started again: its memory (current_price, the
\* running handler, the loop) is lost, the databases keep every committed
\* write, and the module's start-up code runs again.
Restart ==
    /\ proc = "up"
    /\ current_price' = InitialPrice
    /\ prices' = initialize_crypto_db(prices, clock, InitialPrice)
    /\ task' = "running"
    /\ frame' = Idle
    /\ reply' = NoReply
    /\ UNCHANGED <<proc, ledger, clock>>

\* on_ready fires again after a gateway reconnect: update_price_with_ai.start()
\* starts a loop that has ended and raises RuntimeError on a running one.
on_ready ==
    /\ proc = "up"
    /\ frame = Idle
    /\ task' = "running"
    /\ UNCHANGED <<proc, ledger, prices, current_price, clock, frame, reply>>

LoopFree_NoExclusion == proc = "up"

\* The event loop is free: no handler is between its read and its last write.
LoopFree == proc = "up" /\ frame = Idle

-----------------------------------------------------------------------------
(* work *)

work(u, earned) ==
    /\ LoopFree
    /\ clock < MaxClock
    /\ clock' = clock + 1
    /\ ledger' = update_balance(ledger, u, 100 * earned)
    /\ reply' = [kind |-> "work_ok"]
    /\ UNCHANGED <<proc, prices, current_price, task, frame>>

-----------------------------------------------------------------------------
(* The display commands balance and price *)

balance_CreatesRow(u) ==
    /\ LoopFree
    /\ clock < MaxClock
    /\ clock' = clock + 1
    /\ ledger' = update_balance(ledger, u, 0)
    /\ reply' = [kind |-> "wallet", fiat |-> get_balance(ledger, u),
                 holdings |-> get_holdings(ledger, u)]
    /\ UNCHANGED <<proc, prices, current_price, task, frame>>

\* balance(ctx): SELECT the caller's row, (0, 0) when there is none, and show it
balance(u) ==
    /\ LoopFree
    /\ clock < MaxClock
    /\ clock' = clock + 1
    /\ reply' = [kind |-> "wallet", fiat |-> get_balance(ledger, u),
                 holdings |-> get_holdings(ledger, u)]
    /\ UNCHANGED <<proc, ledger, prices, current_price, task, frame>>

HistoryLimit == 30

\* get_price_history: the samples by ascending timestamp, the last 30 of them
get_price_history(ps) ==
    IF Len(ps) > HistoryLimit
    THEN SubSeq(ps, Len(ps) - HistoryLimit + 1, Len(ps))
    ELSE ps

\* price(ctx): plot the history, or say that there is none
price_command ==
    /\ LoopFree
    /\ clock < MaxClock
    /\ clock' = clock + 1
    /\ reply' = [kind |-> IF get_price_history(prices) = << >>
                          THEN "no_history" ELSE "price_graph"]
    /\ UNCHANGED <<proc, ledger, prices, current_price, task, frame>>

-----------------------------------------------------------------------------
(* trade *)

BUY == <<"b","u","y">>
SELL == <<"s","e","l","l">>
MAXALL == {<<"m","a","x">>, <<"a","l","l">>}

\* round(max(raw_trade_amount, 0), 2), in hundredths of a coin.  max(nan, 0)
\* is nan (0 > nan is false), max(-inf, 0) is 0.
TradeAmounts(raw) ==
    CASE raw.kind = "num" ->
            {[kind |-> "fin", v |-> q] : q \in RoundHalf(100 * Max(raw.num, 0), raw.den)}
      [] raw.kind = "-inf" -> {[kind |-> "fin", v |-> 0]}
      [] OTHER -> {[kind |-> raw.kind]}

TotalValues_SeedPrice(ta, price) ==
    IF ta.kind = "fin"
    THEN {[kind |-> "fin", v |-> (ta.v \div 100) * InitialPrice + r] :
             r \in RoundHalf((ta.v % 100) * InitialPrice, 100)}
    ELSE {[kind |-> ta.kind]}

\* round(trade_amount * current_price, 2), in cents: hundredths * cents / 100
TotalValues(ta, price) ==
    IF ta.kind = "fin"
    THEN {[kind |-> "fin", v |-> (ta.v \div 100) * price + r] :
             r \in RoundHalf((ta.v % 100) * price, 100)}
    ELSE {[kind |-> ta.kind]}

\* x >= f for a stored number x and a float f: false against nan and inf
Geq(x, f) == f.kind = "fin" /\ x >= f.v

Positive_Always(f) == TRUE

\* f > 0
Positive(f) == (f.kind = "fin" /\ f.v > 0) \/ f.kind = "inf"

BuyAllowed_NoFundsCheck(fiat, ta, tv) == Positive(ta)

\* fiat >= total_value and trade_amount > 0 (line 268)
BuyAllowed(fiat, ta, tv) == Geq(fiat, tv) /\ Positive(ta)

SellAllowed_NoHoldingsCheck(holdings, ta) == Positive(ta)

\* holdings >= trade_amount and trade_amount > 0 (line 283)
SellAllowed(holdings, ta) == Geq(holdings, ta) /\ Positive(ta)

\* A handler that replies without touching any store.
Reject(kind) ==
    /\ reply' = [kind |-> kind]
    /\ UNCHANGED <<proc, ledger, prices, current_price, task, frame>>

\* A trade that passed its check: the two ledger writes follow.
Accept(u, side, fiat, holdings, ta, tv) ==
    /\ frame' = [op |-> "trade", pc |-> "first", user |-> u, action |-> side,
                 fiat |-> fiat, holdings |-> holdings,
                 trade_amount |-> ta.v, total_value |-> tv.v]
    /\ UNCHANGED <<proc, ledger, prices, current_price, task, reply>>

\* trade(ctx, action, amount), lines 231-267 and the two checks (268, 283):
\* read the row, resolve the amount, compute total_value, accept or reject.
trade_handler(u, action, amount) ==
    /\ LoopFree
    /\ clock' = clock + 1
    /\ LET fiat == get_balance(ledger, u)
           holdings == get_holdings(ledger, u)
           isMax == Lower(amount) \in MAXALL
           act == Lower(action)
           parsed == ParseFloat(amount)
           raw == IF ~isMax THEN parsed
                  ELSE IF act = BUY
                       THEN [kind |-> "num", num |-> fiat, den |-> current_price]
                       ELSE [kind |-> "num", num |-> holdings, den |-> 100]
       IN  IF isMax /\ act \notin {BUY, SELL} THEN Reject("invalid_action")
           ELSE IF ~isMax /\ parsed.kind = "ValueError" THEN Reject("invalid_amount")
           ELSE \E ta \in TradeAmounts(raw) : \E tv \in TotalValues(ta, current_price) :
                  IF act = BUY
                  THEN IF BuyAllowed(fiat, ta, tv)
                       THEN Accept(u, "buy", fiat, holdings, ta, tv)
                       ELSE Reject("insufficient_fiat")
                  ELSE IF act = SELL
                  THEN IF SellAllowed(holdings, ta)
                       THEN Accept(u, "sell", fiat, holdings, ta, tv)
                       ELSE Reject("insufficient_holdings")
                  ELSE Reject("invalid_action")

\* The trade command, while the periods of the model last
trade(u, action, amount) ==
    /\ clock < MaxClock
    /\ trade_handler(u, action, amount)

trade_first_write_CreditFirst ==
    /\ proc = "up"
    /\ frame.op = "trade"
    /\ frame.pc = "first"
    /\ ledger' = IF frame.action = "buy"
                 THEN update_holdings(ledger, frame.user, frame.trade_amount)
                 ELSE update_balance(ledger, frame.user, frame.total_value)
    /\ frame' = [frame EXCEPT !.pc = "second"]
    /\ UNCHANGED <<proc, prices, current_price, task, clock, reply>>

trade_first_write_Atomic ==
    /\ proc = "up"
    /\ frame.op = "trade"
    /\ frame.pc = "first"
    /\ ledger' = IF frame.action = "buy"
                 THEN update_holdings(update_balance(ledger, frame.user, -frame.total_value),
                                      frame.user, frame.trade_amount)
                 ELSE update_balance(update_holdings(ledger, frame.user, -frame.trade_amount),
                                     frame.user, frame.total_value)
    /\ frame' = Idle
    /\ reply' = [kind |-> IF frame.action = "buy" THEN "purchase_ok" ELSE "sale_ok"]
    /\ UNCHANGED <<proc, prices, current_price, task, clock>>

\* The first ledger write of an accepted trade (line 269 or 284)
trade_first_write ==
    /\ proc = "up"
    /\ frame.op = "trade"
    /\ frame.pc = "first"
    /\ ledger' = IF frame.action = "buy"
                 THEN update_balance(ledger, frame.user, -frame.total_value)
                 ELSE update_holdings(ledger, frame.user, -frame.trade_amount)
    /\ frame' = [frame EXCEPT !.pc = "second"]
    /\ UNCHANGED <<proc, prices, current_price, task, clock, reply>>

\* The second ledger write (line 270 or 285) and the success embed
trade_second_write ==
    /\ proc = "up"
    /\ frame.op = "trade"
    /\ frame.pc = "second"
    /\ ledger' = IF frame.action = "buy"
                 THEN update_holdings(ledger, frame.user, frame.trade_amount)
                 ELSE update_balance(ledger, frame.user, frame.total_value)
    /\ frame' = Idle
    /\ reply' = [kind |-> IF frame.action = "buy" THEN "purchase_ok" ELSE "sale_ok"]
    /\ UNCHANGED <<proc, prices, current_price, task, clock>>

-----------------------------------------------------------------------------
(* give *)

GiveRefused_ZeroPasses(amount) == amount < 0

\* if amount <= 0 (line 344)
GiveRefused(amount) == amount <= 0

GiveAffordable_Always(l, caller, amount) == TRUE

\* if get_balance(user_id) >= amount (line 352), amount in cents
GiveAffordable(l, caller, amount) == get_balance(l, caller) >= amount

\* give(ctx, member, amount): amount is an int of whole currency units
give(caller, member, amount) ==
    /\ LoopFree
    /\ clock < MaxClock
    /\ clock' = clock + 1
    /\ IF GiveRefused(amount) THEN Reject("give_nonpositive")
       ELSE IF caller # PrivilegedId
       THEN IF GiveAffordable(ledger, caller, 100 * amount)
            THEN /\ frame' = [op |-> "give", pc |-> "first", user |-> caller,
                              member |-> member, amount |-> 100 * amount]
                 /\ UNCHANGED <<proc, ledger, prices, current_price, task, reply>>
            ELSE Reject("give_insufficient")
       ELSE /\ ledger' = update_balance(ledger, member, 100 * amount)
            /\ reply' = [kind |-> "give_granted"]
            /\ UNCHANGED <<proc, prices, current_price, task, frame>>

\* update_balance(user_id, -amount), line 353
give_first_write ==
    /\ proc = "up"
    /\ frame.op = "give"
    /\ frame.pc = "first"
    /\ ledger' = update_balance(ledger, frame.user, -frame.amount)
    /\ frame' = [frame EXCEPT !.pc = "second"]
    /\ UNCHANGED <<proc, prices, current_price, task, clock, reply>>

\* update_balance(member.id, amount), line 354, and the embed
give_second_write ==
    /\ proc = "up"
    /\ frame.op = "give"
    /\ frame.pc = "second"
    /\ ledger' = update_balance(ledger, frame.member, frame.amount)
    /\ frame' = Idle
    /\ reply' = [kind |-> "give_ok"]
    /\ UNCHANGED <<proc, prices, current_price, task, clock>>

\* sqlite3 raises inside a handler that still has a write to do: the
\* exception ends the handler, no embed is sent, the process lives on.
StorageFail ==
    /\ proc = "up"
    /\ frame # Idle
    /\ frame' = Idle
    /\ UNCHANGED <<proc, ledger, prices, current_price, task, clock, reply>>

-----------------------------------------------------------------------------
(* The ledger functions called directly, as a test of balance.db would;  *)
(* reply then is the test's record of its call.                          *)

update_balance_call(u, amount) ==
    /\ LoopFree
    /\ clock < MaxClock
    /\ clock' = clock + 1
    /\ ledger' = update_balance(ledger, u, amount)
    /\ reply' = [kind |-> "update_balance", user |-> u, amount |-> amount,
                 existed |-> u \in DOMAIN ledger, old |-> get_balance(ledger, u)]
    /\ UNCHANGED <<proc, prices, current_price, task, frame>>

update_holdings_call(u, amount) ==
    /\ LoopFree
    /\ clock < MaxClock
    /\ clock' = clock + 1
    /\ ledger' = update_holdings(ledger, u, amount)
    /\ reply' = [kind |-> "update_holdings", user |-> u, amount |-> amount,
                 existed |-> u \in DOMAIN ledger, old |-> get_holdings(ledger, u)]
    /\ UNCHANGED <<proc, prices, current_price, task, frame>>

-----------------------------------------------------------------------------
(* Inputs drawn by the model *)

\* deltas of the direct ledger calls: cents, or hundredths of a coin
Deltas == {-700, -1, 250}

ActionTokens == {BUY, <<"S","e","l","l">>, <<"h","o","l","d">>}
\* random.uniform(-0.03, 0.03), in units of 0.0001
InvestorChoices == {123}
AmountTokens == {<<"m","a","x">>, <<"A","L","L">>, <<"a","b","c">>, <<"n","a","n">>,
                 <<"0",".","0","1">>, <<"0",".","0","2">>, <<"0",".","0","0","4">>,
                 <<"-","1">>, <<"9","9","9">>}
GiveAmounts == {-5, 0, 5, 11}
WorkAmounts == {1, 10}

\* One period of the loop elapses, with any inputs and any storage outcome
Tick ==
    /\ clock < MaxClock
    /\ \E investor \in InvestorChoices, large \in LargeTradeChoices,
          fail \in {"none", "select", "insert"} :
          update_price_with_ai(investor, large, fail)

-----------------------------------------------------------------------------

Next ==
    \/ Start
    \/ Restart
    \/ on_ready
    \/ \E u \in UserIds, earned \in WorkAmounts : work(u, earned)
    \/ \E u \in UserIds : balance(u)
    \/ price_command
    \/ \E u \in UserIds, action \in ActionTokens, amount \in AmountTokens :
          trade(u, action, amount)
    \/ trade_first_write
    \/ trade_second_write
    \/ \E caller \in UserIds, member \in UserIds, amount \in GiveAmounts :
          give(caller, member, amount)
    \/ give_first_write
    \/ give_second_write
    \/ StorageFail
    \/ Tick

\* The bot: every command, the price task, restarts and storage failures
Spec == Init /\ [][Next]_vars

\* The bot and direct calls of the two ledger functions
LedgerNext ==
    \/ Next
    \/ \E u \in UserIds, amount \in Deltas : update_balance_call(u, amount)
    \/ \E u \in UserIds, amount \in Deltas : update_holdings_call(u, amount)

LedgerSpec == Init /\ [][LedgerNext]_vars

-----------------------------------------------------------------------------
(* A long decline of the price followed by a restart.  The loop draws the  *)
(* steepest fall (investor_activity = -0.03, large_trade_impact = -0.02)  *)
(* for DeclineTicks periods; after that the process may restart and the   *)
(* loop draws freely for two more periods.  Every behaviour is one of the *)
(* bot with particular random draws.                                      *)

DeclineTicks == 115

DeclineTick ==
    /\ Len(prices) <= DeclineTicks
    /\ update_price_with_ai(-300, -200, "none")

LateRestart ==
    /\ Len(prices) > DeclineTicks
    /\ Restart

FreeTick ==
    /\ Len(prices) > DeclineTicks
    /\ Len(prices) <= DeclineTicks + 2
    /\ \E investor \in {-300, 300}, large \in LargeTradeChoices :
          update_price_with_ai(investor, large, "none")

DeclineNext ==
    \/ Start
    \/ DeclineTick
    \/ LateRestart
    \/ FreeTick

DeclineSpec == Init /\ [][DeclineNext]_vars

-----------------------------------------------------------------------------
(* Properties *)

\* C1: in every reachable state, whatever commands, direct ledger calls (with
\* positive or negative deltas) and price ticks came before, every account's
\* balance and holdings are >= 0.
C1_NonNegative ==
    \A u \in DOMAIN ledger : ledger[u].balance >= 0 /\ ledger[u].holdings >= 0

\* A direct call took more from a positive balance than it held.
C1_Witness ==
    /\ reply.kind = "update_balance"
    /\ reply.old > 0
    /\ reply.old + reply.amount < 0
    /\ ledger[reply.user].balance = 0

\* The step that accepts a trade of the given side
AcceptsTrade(side) ==
    frame.op = "idle" /\ frame'.op = "trade" /\ frame'.action = side

\* The step that completes a trade of the given side
CompletesTrade(side) ==
    /\ frame.op = "trade" /\ frame.action = side /\ frame.pc = "second"
    /\ trade_second_write

\* q hundredths is the request (the exact rational num / den coins) clamped
\* at 0 and rounded to 2 decimals
IsRounded(q, num, den) == 2 * Abs(den * q - 100 * Max(num, 0)) <= den

\* q is the quantity that trade resolves for the typed amount
IsRequested(q, u, side, amount) ==
    IF Lower(amount) \in MAXALL
    THEN IF side = "buy"
         THEN IsRounded(q, get_balance(ledger, u), current_price)
         ELSE q = get_holdings(ledger, u)
    ELSE IsRounded(q, ParseFloat(amount).num, ParseFloat(amount).den)

\* tv cents is round(q * price, 2)
IsTotal(tv, q, price) == 2 * Abs(100 * tv - q * price) <= 100

\* C2: a buy is accepted only if total_value <= the balance read at its start
\* and quantity > 0, where quantity is the requested amount clamped at 0 and
\* rounded to 2 decimals and total_value = round(quantity * current_price, 2);
\* an accepted buy that runs to its end leaves balance' = balance -
\* total_value and holdings' = holdings + quantity.
C2_Buy ==
    [][ /\ AcceptsTrade("buy") =>
           \A u \in UserIds, action \in ActionTokens, amount \in AmountTokens :
              trade(u, action, amount) =>
                 /\ frame'.user = u
                 /\ frame'.fiat = get_balance(ledger, u)
                 /\ frame'.holdings = get_holdings(ledger, u)
                 /\ frame'.total_value <= get_balance(ledger, u)
                 /\ frame'.trade_amount > 0
                 /\ IsRequested(frame'.trade_amount, u, "buy", amount)
                 /\ IsTotal(frame'.total_value, frame'.trade_amount, current_price)
        /\ CompletesTrade("buy") =>
              /\ get_balance(ledger', frame.user) = frame.fiat - frame.total_value
              /\ get_holdings(ledger', frame.user) = frame.holdings + frame.trade_amount
      ]_vars

\* A purchase has completed at a price that made total_value round.
C2_Witness ==
    /\ frame = Idle
    /\ reply.kind = "purchase_ok"
    /\ \E u \in DOMAIN ledger : ledger[u].holdings > 0 /\ ledger[u].balance % 100 # 0

\* C3: a sell is accepted only if quantity <= the holdings read at its start
\* and quantity > 0; an accepted sell that runs to its end leaves holdings' =
\* holdings - quantity and balance' = balance + total_value, with total_value
\* = round(quantity * current_price, 2).
C3_Sell ==
    [][ /\ AcceptsTrade("sell") =>
           \A u \in UserIds, action \in ActionTokens, amount \in AmountTokens :
              trade(u, action, amount) =>
                 /\ frame'.user = u
                 /\ frame'.fiat = get_balance(ledger, u)
                 /\ frame'.holdings = get_holdings(ledger, u)
                 /\ frame'.trade_amount <= get_holdings(ledger, u)
                 /\ frame'.trade_amount > 0
                 /\ IsRequested(frame'.trade_amount, u, "sell", amount)
                 /\ IsTotal(frame'.total_value, frame'.trade_amount, current_price)
        /\ CompletesTrade("sell") =>
              /\ get_holdings(ledger', frame.user) = frame.holdings - frame.trade_amount
              /\ get_balance(ledger', frame.user) = frame.fiat + frame.total_value
      ]_vars

\* A sale has completed.
C3_Witness ==
    /\ frame = Idle
    /\ reply.kind = "sale_ok"
    /\ \E u \in DOMAIN ledger : ledger[u].balance > 0

TradeRejections ==
    {"invalid_amount", "invalid_action", "insufficient_fiat", "insufficient_holdings"}

\* The cases of C4, read off the command's arguments and the stored row
MustBeRejected(u, action, amount) ==
    LET isMax == Lower(amount) \in MAXALL
        act == Lower(action)
        parsed == ParseFloat(amount)
    IN  \/ ~isMax /\ parsed.kind = "ValueError"
        \/ act \notin {BUY, SELL}
        \/ /\ ~isMax /\ parsed.kind = "num"
           /\ \/ 200 * parsed.num < parsed.den
              \/ act = SELL /\ 100 * parsed.num > (get_holdings(ledger, u) + 1) * parsed.den
              \/ /\ act = BUY
                 /\ parsed.num >= parsed.den
                 /\ (parsed.num \div parsed.den) * current_price
                       > get_balance(ledger, u) + current_price

\* C4: every rejected trade leaves the ledger (every row, and the set of
\* rows), current_price and the price series unchanged and writes nothing
\* later; an unparsable amount, an action other than buy/sell, a quantity
\* that clamps or rounds to 0, a sell of more than the holdings and a buy
\* costing more than the balance are rejected.  On every step: one that
\* rejects and changes something is no trade, and one that does not reject
\* is no trade of an input that must be rejected.
C4_RejectedTradeChangesNothing ==
    [][ LET rejected == frame' = Idle /\ reply'.kind \in TradeRejections
            unchanged == /\ ledger' = ledger
                         /\ current_price' = current_price
                         /\ prices' = prices
        IN  /\ rejected /\ ~unchanged =>
                 \A u \in UserIds, action \in ActionTokens, amount \in AmountTokens :
                    ~trade(u, action, amount)
            /\ ~rejected =>
                 \A u \in UserIds, action \in ActionTokens, amount \in AmountTokens :
                    trade(u, action, amount) => ~MustBeRejected(u, action, amount)
      ]_vars

\* A sell of more than the user's positive holdings was rejected.
C4_Witness ==
    /\ frame = Idle
    /\ reply.kind = "insufficient_holdings"
    /\ \E u \in DOMAIN ledger : ledger[u].holdings > 0

\* C5: update_balance(u, delta) always succeeds and leaves balance(u) =
\* max(old + delta, 0), old being the stored balance or 0 for an absent
\* account; update_holdings does the same for holdings.  Stated on every
\* state in which a call can be made: the call is possible, and no call
\* ends with another value.
C5_UpdateFloorsAtZero ==
    LoopFree /\ clock < MaxClock =>
        \A u \in UserIds, amount \in Deltas :
            /\ ENABLED update_balance_call(u, amount)
            /\ ENABLED update_holdings_call(u, amount)
            /\ ~ENABLED
                 /\ update_balance_call(u, amount)
                 /\ ~ /\ u \in DOMAIN ledger'
                      /\ ledger'[u].balance = Max(get_balance(ledger, u) + amount, 0)
            /\ ~ENABLED
                 /\ update_holdings_call(u, amount)
                 /\ ~ /\ u \in DOMAIN ledger'
                      /\ ledger'[u].holdings = Max(get_holdings(ledger, u) + amount, 0)

\* A negative delta was applied to an account that did not exist.
C5_Witness ==
    /\ reply.kind \in {"update_balance", "update_holdings"}
    /\ ~reply.existed
    /\ reply.amount < 0
    /\ ledger[reply.user] = [balance |-> 0, holdings |-> 0]

\* C6: every price a tick produces is >= 0.01 and, unless it is the 0.01
\* floor, differs from the price before the tick by at most 10% of it.
C6_TickWithinTenPercent ==
    [][ proc = "up" /\ proc' = "up" /\ clock' = clock + 1
        /\ current_price' # current_price =>
            /\ current_price' >= 1
            /\ \/ current_price' = 1
               \/ 10 * Abs(current_price' - current_price) <= current_price
      ]_vars

\* C7: give with amount <= 0 is rejected for every caller, the privileged id
\* included, and changes nothing; a non-privileged caller whose balance is
\* below amount is rejected and changes nothing; the privileged caller is
\* never balance-checked: the target is credited with amount and the
\* caller's own balance is not debited.
C7_Give ==
    [][ \A caller \in UserIds, member \in UserIds, amount \in GiveAmounts :
           give(caller, member, amount) =>
              /\ amount <= 0 =>
                    ledger' = ledger /\ frame' = Idle /\ reply'.kind = "give_nonpositive"
              /\ amount > 0 /\ caller # PrivilegedId
                 /\ get_balance(ledger, caller) < 100 * amount =>
                    ledger' = ledger /\ frame' = Idle /\ reply'.kind = "give_insufficient"
              /\ amount > 0 /\ caller = PrivilegedId =>
                    /\ frame' = Idle
                    /\ reply'.kind = "give_granted"
                    /\ get_balance(ledger', member) = get_balance(ledger, member) + 100 * amount
                    /\ member # caller => get_balance(ledger', caller) = get_balance(ledger, caller)
      ]_vars

\* The privileged caller, holding nothing, has granted funds to the other user.
C7_Witness ==
    /\ reply.kind = "give_granted"
    /\ get_balance(ledger, PrivilegedId) = 0
    /\ \E u \in DOMAIN ledger : u # PrivilegedId /\ ledger[u].balance > 0

\* C8: the start-up code seeds an empty series with exactly one sample of
\* price 500.00 and leaves a non-empty series as it is.
C8_SeedOnce ==
    [][ Start \/ Restart =>
           IF prices = << >>
           THEN Len(prices') = 1 /\ prices'[1].price = InitialPrice
           ELSE prices' = prices
      ]_vars

\* The process was restarted after at least one tick had been stored.
C8_Witness ==
    /\ proc = "up"
    /\ Len(prices) >= 2
    /\ current_price = InitialPrice
    /\ prices[Len(prices)].price # InitialPrice

\* C9: current_price equals the price of the most recent sample of the
\* series, whenever the bot runs.
C9_PriceMirrorsStore ==
    proc = "up" => Len(prices) > 0 /\ current_price = prices[Len(prices)].price

\* C10 as claimed: while one trade handler of a user has read its row and
\* written nothing yet, a second trade of that user can read the same row.
C10_TradesCanOverlap ==
    frame.op = "trade" /\ frame.pc = "first" /\ clock < MaxClock =>
        \E action \in ActionTokens, amount \in AmountTokens :
            ENABLED trade(frame.user, action, amount)

\* C10, amended: no command starts while a trade is between its read and its
\* last write, so an accepted trade writes against the row it was checked
\* on: the stored pair is the pair it read, changed by its own first write
\* only, and it covers what the trade takes.
C10_TradesDoNotOverlap ==
    frame.op = "trade" =>
        /\ \A u \in UserIds, action \in ActionTokens, amount \in AmountTokens :
              ~ENABLED trade(u, action, amount)
        /\ frame.action = "buy" => frame.total_value <= frame.fiat
        /\ frame.action = "sell" => frame.trade_amount <= frame.holdings
        /\ frame.pc = "first" =>
              /\ get_balance(ledger, frame.user) = frame.fiat
              /\ get_holdings(ledger, frame.user) = frame.holdings
        /\ frame.pc = "second" /\ frame.action = "buy" =>
              /\ get_balance(ledger, frame.user) = frame.fiat - frame.total_value
              /\ get_holdings(ledger, frame.user) = frame.holdings
        /\ frame.pc = "second" /\ frame.action = "sell" =>
              /\ get_balance(ledger, frame.user) = frame.fiat
              /\ get_holdings(ledger, frame.user) = frame.holdings - frame.trade_amount

\* A second buy of the same user was accepted after the first had completed.
C10_Witness ==
    /\ frame.op = "trade"
    /\ frame.pc = "first"
    /\ frame.action = "buy"
    /\ frame.holdings > 0

\* Some command could start now, were the loop free (any command at all)
SomeCommandEnabled ==
    \/ \E u \in UserIds, earned \in WorkAmounts : ENABLED work(u, earned)
    \/ \E u \in UserIds : ENABLED balance(u)
    \/ ENABLED price_command
    \/ \E u \in UserIds, action \in ActionTokens, amount \in AmountTokens :
          ENABLED trade(u, action, amount)
    \/ \E caller \in UserIds, member \in UserIds, amount \in GiveAmounts :
          ENABLED give(caller, member, amount)

\* The account of the pending trade has its first field written and its
\* second field as it was read
HalfTraded(l) ==
    IF frame.action = "buy"
    THEN /\ get_balance(l, frame.user) = frame.fiat - frame.total_value
         /\ get_holdings(l, frame.user) = frame.holdings
    ELSE /\ get_holdings(l, frame.user) = frame.holdings - frame.trade_amount
         /\ get_balance(l, frame.user) = frame.fiat

\* C11 as claimed: between the first and the second write of an accepted
\* trade a crash can strike and another handler's operation can be placed.
C11_CrashOrHandlerBetweenWrites ==
    frame.op = "trade" /\ frame.pc = "second" /\ clock < MaxClock =>
        ENABLED Restart /\ SomeCommandEnabled

\* C11, amended: the two ledger writes of an accepted trade are committed
\* separately.  The first write changes one field and leaves the trade
\* pending; in that state a crash or a storage failure can strike, and it
\* leaves the ledger with one field written and the other not; no command
\* of another handler can be placed between the two writes.
C11_SeparateWrites ==
    [][ /\ frame.op = "trade" /\ frame.pc = "first" /\ ledger' # ledger =>
              /\ frame' = [frame EXCEPT !.pc = "second"]
              /\ HalfTraded(ledger')
        /\ frame.op = "trade" /\ frame.pc = "second" =>
              /\ HalfTraded(ledger)
              /\ ENABLED Restart
              /\ ENABLED StorageFail
              /\ ~SomeCommandEnabled
              /\ Restart \/ StorageFail =>
                    frame' = Idle /\ ledger' = ledger /\ HalfTraded(ledger')
      ]_vars

\* A buy was cut off after its debit: a balance that only a trade can leave,
\* and no holdings anywhere.
C11_Witness ==
    /\ proc = "up"
    /\ frame = Idle
    /\ \E u \in DOMAIN ledger : ledger[u].balance % 100 # 0
    /\ \A u \in DOMAIN ledger : ledger[u].holdings = 0

\* The amount tokens that mean max/all
MaxTokens == {amount \in AmountTokens : Lower(amount) \in MAXALL}

\* The action tokens that mean buy
BuyTokens == {action \in ActionTokens : Lower(action) = BUY}

\* C12: trade(buy, max/all) with balance b > 0 at price p resolves quantity
\* = round(b / p, 2) and total_value = round(quantity * p, 2), and whenever
\* that quantity is > 0 the buy is accepted, with total_value <= b.
C12_BuyMaxAccepted ==
    [][ \A u \in UserIds, action \in BuyTokens, amount \in MaxTokens :
           /\ trade(u, action, amount)
           /\ get_balance(ledger, u) > 0
           /\ \A q \in RoundHalf(100 * get_balance(ledger, u), current_price) : q > 0
           => /\ AcceptsTrade("buy")
              /\ IsRounded(frame'.trade_amount, get_balance(ledger, u), current_price)
              /\ IsTotal(frame'.total_value, frame'.trade_amount, current_price)
              /\ frame'.total_value <= get_balance(ledger, u)
      ]_vars

\* A step of one of the commands balance, price, work, give and trade,
\* accepted or rejected, or one of their ledger writes
CommandStep ==
    \/ \E u \in UserIds : balance(u)
    \/ price_command
    \/ \E u \in UserIds, earned \in WorkAmounts : work(u, earned)
    \/ \E caller \in UserIds, member \in UserIds, amount \in GiveAmounts :
          give(caller, member, amount)
    \/ give_first_write \/ give_second_write
    \/ trade_first_write \/ trade_second_write
    \/ \E u \in UserIds, action \in ActionTokens, amount \in AmountTokens :
          trade(u, action, amount)

\* C13: current_price and the price series are written only by the price
\* task and by the start-up code: every step that changes one of them is a
\* tick or a (re)start of the process and no step of the commands balance,
\* trade, work, give and price, accepted or rejected; and the display
\* commands balance and price leave the ledger unchanged too.
C13_OnlyEngineWritesPrice ==
    [][ /\ current_price' # current_price \/ prices' # prices =>
              /\ Tick \/ Start \/ Restart
              /\ ~CommandStep
        /\ (\E u \in UserIds : balance(u)) \/ price_command => ledger' = ledger
      ]_vars

\* The wallet was shown after the price had moved and an account existed.
C13_Witness ==
    /\ reply.kind = "wallet"
    /\ reply.fiat > 0
    /\ Len(prices) >= 2
    /\ current_price = prices[Len(prices)].price

\* Every row but u's is in l2 as it is in l, and no row was deleted
OthersKept(l, l2, u) ==
    /\ DOMAIN l2 = DOMAIN l \cup {u}
    /\ \A v \in DOMAIN l \ {u} : l2[v] = l[v]

\* C14: update_balance on an absent user creates the row with holdings 0 and
\* update_holdings creates it with balance 0; on an existing account each
\* leaves the other field unchanged; neither changes or deletes another
\* user's row; get_balance and get_holdings return 0 for an absent user and
\* a handler that only reads (give refused for lack of funds) creates no
\* row.  Stated on every state in which a call can be made: no call ends
\* otherwise.
C14_ImplicitAccounts ==
    LoopFree /\ clock < MaxClock =>
        \A u \in UserIds :
            /\ u \notin DOMAIN ledger =>
                  /\ get_balance(ledger, u) = 0
                  /\ get_holdings(ledger, u) = 0
                  /\ u # PrivilegedId =>
                        \A member \in UserIds, amount \in GiveAmounts :
                           ~ENABLED (give(u, member, amount) /\ ledger' # ledger)
            /\ \A amount \in Deltas :
                  /\ ~ENABLED
                       /\ update_balance_call(u, amount)
                       /\ ~ /\ OthersKept(ledger, ledger', u)
                            /\ ledger'[u].holdings = get_holdings(ledger, u)
                  /\ ~ENABLED
                       /\ update_holdings_call(u, amount)
                       /\ ~ /\ OthersKept(ledger, ledger', u)
                            /\ ledger'[u].balance = get_balance(ledger, u)

\* update_holdings created the account of a user while another account existed.
C14_Witness ==
    /\ reply.kind = "update_holdings"
    /\ ~reply.existed
    /\ reply.amount > 0
    /\ ledger[reply.user] = [balance |-> 0, holdings |-> reply.amount]
    /\ \E v \in DOMAIN ledger : v # reply.user /\ ledger[v].balance > 0

RECURSIVE SumOfBalances(_, _)
SumOfBalances(l, users) ==
    IF users = {} THEN 0
    ELSE LET u == CHOOSE x \in users : TRUE
         IN  l[u].balance + SumOfBalances(l, users \ {u})

\* The sum of all balances of the ledger
TotalBalance(l) == SumOfBalances(l, DOMAIN l)

HoldingsKept(l, l2) == \A v \in UserIds : get_holdings(l2, v) = get_holdings(l, v)

\* C15: an accepted give by a non-privileged caller transfers exactly
\* amount.  It is accepted only with balance >= amount > 0 and nothing runs
\* before its writes; its first write takes exactly amount from the caller
\* and from the sum of all balances, its second write adds exactly amount
\* to the target and to the sum (so the sum is unchanged over the give, and
\* so is the caller's balance when the caller is the target); no holdings
\* change.
C15_GiveTransfersExactly ==
    [][ /\ frame = Idle /\ frame'.op = "give" =>
              /\ frame'.user # PrivilegedId
              /\ frame'.amount > 0
              /\ get_balance(ledger, frame'.user) >= frame'.amount
              /\ ledger' = ledger
        /\ frame.op = "give" /\ frame.pc = "first" =>
              get_balance(ledger, frame.user) >= frame.amount
        /\ give_first_write =>
              /\ get_balance(ledger', frame.user) = get_balance(ledger, frame.user) - frame.amount
              /\ TotalBalance(ledger') = TotalBalance(ledger) - frame.amount
              /\ HoldingsKept(ledger, ledger')
        /\ give_second_write =>
              /\ get_balance(ledger', frame.member)
                    = get_balance(ledger, frame.member) + frame.amount
              /\ TotalBalance(ledger') = TotalBalance(ledger) + frame.amount
              /\ HoldingsKept(ledger, ledger')
              /\ frame.member # frame.user =>
                    get_balance(ledger', frame.user) = get_balance(ledger, frame.user)
      ]_vars

\* The non-privileged user has given half of what it had to the other user.
C15_Witness ==
    /\ frame = Idle
    /\ reply.kind = "give_ok"
    /\ \A u \in UserIds : get_balance(ledger, u) = 500

\* A tick that ran to its commit
CompletedTick ==
    \E investor \in InvestorChoices, large \in LargeTradeChoices :
        update_price_with_ai(investor, large, "none")

\* C16: the price series is append-only.  No step modifies or removes a
\* stored sample or adds more than one; each completed tick appends exactly
\* one sample, whose price is the new current_price; the samples stand in
\* non-decreasing order of timestamp (time, as the process reads it, never
\* running backwards).
C16_AppendOnly ==
    [][ /\ Len(prices') >= Len(prices)
        /\ Len(prices') <= Len(prices) + 1
        /\ SubSeq(prices', 1, Len(prices)) = prices
        /\ CompletedTick =>
              /\ Len(prices') = Len(prices) + 1
              /\ prices'[Len(prices')].price = current_price'
        /\ \A i \in 1..(Len(prices') - 1) :
              prices'[i].timestamp <= prices'[i + 1].timestamp
      ]_vars

\* Two ticks have completed, the second at a later time than the first.
C16_Witness ==
    /\ proc = "up"
    /\ Len(prices) >= 3
    /\ current_price = prices[Len(prices)].price
    /\ prices[Len(prices) - 1].timestamp < prices[Len(prices)].timestamp

-----------------------------------------------------------------------------
(* The bot with its scheduling.  The timer of the loop fires every period  *)
(* while the loop is alive, and a handler that has started goes on to its  *)
(* next statement; commands, gateway reconnects, restarts and storage      *)
(* failures may or may not happen.                                         *)

Fairness ==
    /\ WF_vars(Tick)
    /\ WF_vars(trade_first_write)
    /\ WF_vars(trade_second_write)
    /\ WF_vars(give_first_write)
    /\ WF_vars(give_second_write)

FairSpec == Init /\ [][Next]_vars /\ Fairness

\* C17: a tick that aborts on a storage failure does not stop the periodic
\* task: after a failed tick the loop is running again at some later time
\* (or the periods of this model have all elapsed).
C17_FailedTickIsFollowed ==
    task = "failed" ~> (task = "running" \/ clock >= MaxClock)

-----------------------------------------------------------------------------

\* C18: in every accepted buy, sell and non-privileged give the debit is
\* written before the credit: the first write takes from one field (buy:
\* balance, sell: holdings, give: the caller's balance) and leaves the field
\* to be credited as it was, the second write adds to the other (buy:
\* holdings, sell: balance, give: the target's balance); a crash or a failure
\* between the two writes changes nothing more, so it leaves the debit
\* without the credit.
C18_DebitBeforeCredit ==
    [][ /\ trade_first_write =>
              IF frame.action = "buy"
              THEN /\ get_balance(ledger', frame.user)
                         = get_balance(ledger, frame.user) - frame.total_value
                   /\ get_holdings(ledger', frame.user) = get_holdings(ledger, frame.user)
              ELSE /\ get_holdings(ledger', frame.user)
                         = get_holdings(ledger, frame.user) - frame.trade_amount
                   /\ get_balance(ledger', frame.user) = get_balance(ledger, frame.user)
        /\ trade_second_write =>
              IF frame.action = "buy"
              THEN /\ get_holdings(ledger', frame.user)
                         = get_holdings(ledger, frame.user) + frame.trade_amount
                   /\ get_balance(ledger', frame.user) = get_balance(ledger, frame.user)
              ELSE /\ get_balance(ledger', frame.user)
                         = get_balance(ledger, frame.user) + frame.total_value
                   /\ get_holdings(ledger', frame.user) = get_holdings(ledger, frame.user)
        /\ give_first_write =>
              /\ get_balance(ledger', frame.user)
                    = get_balance(ledger, frame.user) - frame.amount
              /\ frame.member # frame.user =>
                    get_balance(ledger', frame.member) = get_balance(ledger, frame.member)
        /\ give_second_write =>
              get_balance(ledger', frame.member)
                 = get_balance(ledger, frame.member) + frame.amount
        /\ frame # Idle /\ frame.pc = "second" /\ (Restart \/ StorageFail) =>
              frame' = Idle /\ ledger' = ledger
      ]_vars

\* A give stands between its writes: the caller is debited, the target has
\* no account yet, and the process can die here.
C18_Witness ==
    /\ frame.op = "give"
    /\ frame.pc = "second"
    /\ frame.member \notin DOMAIN ledger
    /\ frame.user \in DOMAIN ledger
    /\ ENABLED Restart

\* C19: a trade uses one value of current_price throughout.  A buy max/all
\* resolves its quantity and its total_value with the same price; while a
\* trade is between its read and its last write its total_value is the one
\* of the price that is current, no tick of the loop can run (whatever it
\* would draw, whether or not storage would fail), and the price does not
\* change as long as the trade goes on.
C19_OnePricePerTrade ==
    [][ /\ AcceptsTrade("buy") =>
              \A u \in UserIds, action \in BuyTokens, amount \in MaxTokens :
                 trade(u, action, amount) =>
                    /\ IsRounded(frame'.trade_amount, get_balance(ledger, u), current_price)
                    /\ IsTotal(frame'.total_value, frame'.trade_amount, current_price)
                    /\ current_price' = current_price
        /\ frame.op = "trade" =>
              /\ IsTotal(frame.total_value, frame.trade_amount, current_price)
              /\ \A investor \in InvestorChoices, large \in LargeTradeChoices,
                    fail \in {"none", "select", "insert"} :
                    ~ENABLED update_price_with_ai(investor, large, fail)
              /\ frame'.op = "trade" => current_price' = current_price
      ]_vars

\* A buy of the caller's full capacity is between its read and its writes at
\* a price that a tick has moved, with the loop alive.
C19_Witness ==
    /\ frame.op = "trade"
    /\ frame.action = "buy"
    /\ task = "running"
    /\ Len(prices) >= 2
    /\ current_price # InitialPrice
    /\ IsRounded(frame.trade_amount, frame.fiat, current_price)
    /\ frame.total_value % 100 # 0

-----------------------------------------------------------------------------
(* A long fall of the price with a buyer who owns nothing.  The loop draws *)
(* the steepest fall (investor_activity = -0.03, large_trade_impact =      *)
(* -0.02) for FallTicks periods, and once during the fall a user tries to  *)
(* buy 0.01 DogCoin.  Every behaviour is one of the bot with particular    *)
(* random draws.                                                           *)

FallTicks == 140

FallTick ==
    /\ Len(prices) <= FallTicks
    /\ update_price_with_ai(-300, -200, "none")

\* f.trade buy 0.01, once: clock counts the ticks and the commands, and the
\* series holds the seed and one sample for each tick
PennyBuy ==
    /\ clock < Len(prices)
    /\ \E u \in UserIds : trade_handler(u, BUY, <<"0", ".", "0", "1">>)

FallNext ==
    \/ Start
    \/ FallTick
    \/ PennyBuy
    \/ trade_first_write
    \/ trade_second_write

FallSpec == Init /\ [][FallNext]_vars

\* C20: every accepted buy debits a strictly positive amount: at every
\* price that ticks reach from 500.00 an accepted buy has quantity > 0 and
\* total_value > 0, and no buy that completes raises the holdings of a user
\* whose balance was 0.
C20_BuyDebitsPositive ==
    [][ /\ AcceptsTrade("buy") =>
              frame'.trade_amount > 0 /\ frame'.total_value > 0
        /\ CompletesTrade("buy")
           /\ get_holdings(ledger', frame.user) > get_holdings(ledger, frame.user) =>
              frame.fiat > 0
      ]_vars

=============================================================================
